---- MODULE Spec2Model ----
(***************************************************************************)
(* Model of the meeting-minutes assistant: the command-line flow of        *)
(* app.py (manual notes or interactive interview, then the two-stage       *)
(* pipeline process_meeting_data) and the chat page of ui.py.              *)
(* The hosted language model is an oracle: every chain.invoke either       *)
(* returns one of a few reply texts or raises.                             *)
(***************************************************************************)
EXTENDS Naturals, Sequences, FiniteSets, TLC

(* ---------------------------- bounds ---------------------------------- *)
MaxTurns == 3        \* user inputs typed in one interview / chat session
MaxLines == 2        \* lines of manually entered notes
MaxGenerate == 1     \* presses of "Generate Meeting Minutes" in one session

(* ---------------------------- inputs ---------------------------------- *)
None == "None"                       \* Python None / missing key
KeyValues == {None, "", "sk-key"}    \* a credential: missing, empty or set
Choices == {"1", "2", "x"}           \* answers to "Select an option"
CliInputs == {"a", "b", "exit", "EXIT"}   \* answers to "You: "
UiInputs == {"1", "2", "a"}          \* texts typed in the chat box
NoteLines == {"", "n1"}              \* lines of manual notes
ChatReplies == {"q1"}                \* replies of the dialogue oracle
RawReplies == {"{json}", "prose"}    \* replies of the first-stage oracle
MomReplies == {"minutes"}            \* replies of the second-stage oracle

\* the MeetingRecord schema of the specification: the replies that conform
\* to it, and the record whose every field holds its default
Conforms(reply) == reply = "{json}"
DefaultRecord == "{defaults}"

Failure == [ok |-> FALSE, content |-> ""]
Outcomes(replies) == {Failure} \cup {[ok |-> TRUE, content |-> r] : r \in replies}

VARIABLES
    entry,                \* which program runs: "cli" (app.py) or "ui" (ui.py)
    secrets,              \* st.secrets["OPENAI_API_KEY"]
    environ,              \* os.environ["OPENAI_API_KEY"]
    pc,                   \* position of the command-line program
    user_input_lines,     \* manual notes read so far
    typed,                \* every text entered at "You: " / in the chat box
    chat_history,         \* the dialogue transcript handed to the oracle
    collected_responses,  \* the user turns collected for the pipeline
    user_responses,       \* the raw texts handed to process_meeting_data, in order
    calls,                \* every chain.invoke made, in order
    results,              \* <<dict>> returned by process_meeting_data
    printed,              \* what the run printed / rendered after the pipeline
    last_error,           \* the exception that ended the last run, or "none"
    messages,             \* st.session_state.messages
    waiting_for_option,   \* st.session_state.waiting_for_option
    widgets               \* the input widgets the last run of the page rendered

vars == <<entry, secrets, environ, pc, user_input_lines, typed, chat_history,
          collected_responses, user_responses, calls, results, printed,
          last_error, messages, waiting_for_option, widgets>>

(* ------------------------- pure functions ----------------------------- *)
RECURSIVE join(_, _)
join(sep, s) ==
    IF s = <<>> THEN ""
    ELSE IF Len(s) = 1 THEN s[1]
    ELSE s[1] \o sep \o join(sep, Tail(s))

lower(s) == IF s \in {"EXIT", "Exit"} THEN "exit" ELSE s

\* not "\n".join(lines).strip(): every line holds white space only
is_blank(lines) == \A i \in 1..Len(lines) : lines[i] \in {"", " "}

HumanMessage(c) == [role |-> "human", content |-> c]
AIMessage(c) == [role |-> "ai", content |-> c]

\* variant: the missing key is not detected
validate_env_vars_unchecked(s, e) ==
    [ok |-> TRUE, environ |-> IF s # None THEN s ELSE e]

validate_env_vars(s, e) ==
    LET api_key == IF s # None THEN s ELSE e
        env2 == IF s # None THEN s ELSE e
    IN [ok |-> ~(api_key \in {None, ""}), environ |-> env2]

initialize_llm(s, e) == validate_env_vars(s, e)

interview_call(text, o) ==
    [chain |-> "interview", input |-> text, chat_history |-> <<>>,
     ok |-> o.ok, content |-> o.content]

\* variant: the reply is validated and replaced by the defaults
mom_call_validated(raw_data, o) ==
    [chain |-> "mom",
     input |-> IF Conforms(raw_data) THEN raw_data ELSE DefaultRecord,
     chat_history |-> <<>>, ok |-> o.ok, content |-> o.content]

mom_call(raw_data, o) ==
    [chain |-> "mom", input |-> raw_data, chat_history |-> <<>>,
     ok |-> o.ok, content |-> o.content]

\* variant: the transcript is not handed to the oracle
chat_call_no_context(user_input, history, o) ==
    [chain |-> "chat", input |-> user_input, chat_history |-> <<>>,
     ok |-> o.ok, content |-> o.content]

chat_call(user_input, history, o) ==
    [chain |-> "chat", input |-> user_input, chat_history |-> history,
     ok |-> o.ok, content |-> o.content]

\* variant: a failed stage is swallowed and a fallback document returned
process_meeting_data_fallback(text, s, e, o1, o2) ==
    LET llm == initialize_llm(s, e)
    IN IF ~llm.ok
       THEN [raised |-> TRUE, error |-> "config", environ |-> llm.environ,
             calls |-> <<>>, results |-> <<>>]
       ELSE [raised |-> FALSE, error |-> "none", environ |-> llm.environ,
             calls |-> <<interview_call(text, o1), mom_call(o1.content, o2)>>,
             results |-> <<[raw_data |-> o1.content, meeting_minutes |-> o2.content]>>]

\* variant: the rendering stage is given the user's text, not the reply
process_meeting_data_skips_reply(text, s, e, o1, o2) ==
    LET llm == initialize_llm(s, e)
    IN IF ~llm.ok
       THEN [raised |-> TRUE, error |-> "config", environ |-> llm.environ,
             calls |-> <<>>, results |-> <<>>]
       ELSE IF ~o1.ok
       THEN [raised |-> TRUE, error |-> "oracle", environ |-> llm.environ,
             calls |-> <<interview_call(text, o1)>>, results |-> <<>>]
       ELSE IF ~o2.ok
       THEN [raised |-> TRUE, error |-> "oracle", environ |-> llm.environ,
             calls |-> <<interview_call(text, o1), mom_call(text, o2)>>,
             results |-> <<>>]
       ELSE [raised |-> FALSE, error |-> "none", environ |-> llm.environ,
             calls |-> <<interview_call(text, o1), mom_call(text, o2)>>,
             results |-> <<[raw_data |-> o1.content, meeting_minutes |-> o2.content]>>]

process_meeting_data(text, s, e, o1, o2) ==
    LET llm == initialize_llm(s, e)
        raw_data == o1.content
        minutes == o2.content
    IN IF ~llm.ok
       THEN [raised |-> TRUE, error |-> "config", environ |-> llm.environ,
             calls |-> <<>>, results |-> <<>>]
       ELSE IF ~o1.ok
       THEN [raised |-> TRUE, error |-> "oracle", environ |-> llm.environ,
             calls |-> <<interview_call(text, o1)>>, results |-> <<>>]
       ELSE IF ~o2.ok
       THEN [raised |-> TRUE, error |-> "oracle", environ |-> llm.environ,
             calls |-> <<interview_call(text, o1), mom_call(raw_data, o2)>>,
             results |-> <<>>]
       ELSE [raised |-> FALSE, error |-> "none", environ |-> llm.environ,
             calls |-> <<interview_call(text, o1), mom_call(raw_data, o2)>>,
             results |-> <<[raw_data |-> raw_data, meeting_minutes |-> minutes]>>]

\* variant: the stop test is case sensitive
stop_signal_case_sensitive(user_input) == user_input = "exit"

stop_signal(user_input) == lower(user_input) = "exit"

\* variant: the assistant's reply is collected with the user's turn
interview_turn_collects_reply(history, collected, user_input, o) ==
    [collected_responses |-> IF o.ok THEN collected \o <<user_input, o.content>>
                             ELSE Append(collected, user_input),
     call |-> chat_call(user_input, history, o),
     chat_history |-> IF o.ok
                      THEN history \o <<HumanMessage(user_input), AIMessage(o.content)>>
                      ELSE history]

interview_turn(history, collected, user_input, o) ==
    [collected_responses |-> Append(collected, user_input),
     call |-> chat_call(user_input, history, o),
     chat_history |-> IF o.ok
                      THEN history \o <<HumanMessage(user_input), AIMessage(o.content)>>
                      ELSE history]

SampleNotes == "Company: ABC Technologies ..."
ErrorText == "Error"

(* ------------------------------ Init ---------------------------------- *)
WelcomeMessage == [role |-> "assistant", content |-> "Welcome"]

init_session_state ==
    [messages |-> <<WelcomeMessage>>, waiting_for_option |-> TRUE,
     chat_history |-> <<>>, collected_responses |-> <<>>]

Init ==
    /\ entry \in {"cli", "ui"}
    /\ secrets \in KeyValues
    /\ environ \in KeyValues
    /\ pc = IF entry = "cli" THEN "choice" ELSE "page"
    /\ user_input_lines = <<>>
    /\ typed = <<>>
    /\ chat_history = init_session_state.chat_history
    /\ collected_responses = init_session_state.collected_responses
    /\ user_responses = <<>>
    /\ calls = <<>>
    /\ results = <<>>
    /\ printed = <<>>
    /\ last_error = "none"
    /\ messages = init_session_state.messages
    /\ waiting_for_option = init_session_state.waiting_for_option
    /\ widgets = {}

(* ------------------------ command-line flow --------------------------- *)
\* the except clause of __main__: report the error, the run is over
CliAbort(err) ==
    /\ pc' = "error"
    /\ last_error' = err
    /\ printed' = <<ErrorText>>
    /\ results' = <<>>

\* results = process_meeting_data(user_responses), then the two prints
CliProcess(text, o1, o2) ==
    LET r == process_meeting_data(text, secrets, environ, o1, o2)
    IN /\ user_responses' = Append(user_responses, text)
       /\ environ' = r.environ
       /\ calls' = calls \o r.calls
       /\ IF r.raised
          THEN CliAbort(r.error)
          ELSE /\ pc' = "done"
               /\ last_error' = "none"
               /\ results' = r.results
               /\ printed' = <<r.results[1].raw_data, r.results[1].meeting_minutes>>

cli_choice(choice, o) ==
    /\ entry = "cli" /\ pc = "choice"
    /\ UNCHANGED <<entry, secrets, user_input_lines, typed, collected_responses,
                   user_responses, messages, waiting_for_option, widgets>>
    /\ IF choice = "1"
       THEN /\ pc' = "notes"
            /\ UNCHANGED <<environ, chat_history, calls, results, printed, last_error>>
       ELSE LET llm == initialize_llm(secrets, environ)
            IN /\ environ' = llm.environ
               /\ IF ~llm.ok
                  THEN /\ CliAbort("config")
                       /\ UNCHANGED <<chat_history, calls>>
                  ELSE /\ calls' = Append(calls, chat_call("Hello", <<>>, o))
                       /\ IF ~o.ok
                          THEN /\ CliAbort("oracle")
                               /\ UNCHANGED chat_history
                          ELSE /\ chat_history' = <<HumanMessage("Hello"), AIMessage(o.content)>>
                               /\ pc' = "interview"
                               /\ UNCHANGED <<results, printed, last_error>>

cli_notes_line(line) ==
    /\ entry = "cli" /\ pc = "notes"
    /\ Len(user_input_lines) < MaxLines
    /\ user_input_lines' = Append(user_input_lines, line)
    /\ UNCHANGED <<entry, secrets, environ, pc, typed, chat_history,
                   collected_responses, user_responses, calls, results, printed,
                   last_error, messages, waiting_for_option, widgets>>

cli_notes_eof(o1, o2) ==
    /\ entry = "cli" /\ pc = "notes"
    /\ LET text == join("\n", user_input_lines)
       IN CliProcess(IF is_blank(user_input_lines) THEN SampleNotes ELSE text, o1, o2)
    /\ UNCHANGED <<entry, secrets, user_input_lines, typed, chat_history,
                   collected_responses, messages, waiting_for_option, widgets>>

cli_interview_input(user_input, o, o1, o2) ==
    /\ entry = "cli" /\ pc = "interview"
    /\ Len(typed) < MaxTurns \/ stop_signal(user_input)
    /\ typed' = Append(typed, user_input)
    /\ UNCHANGED <<entry, secrets, user_input_lines, messages, waiting_for_option, widgets>>
    /\ IF stop_signal(user_input)
       THEN /\ CliProcess(join("\n", collected_responses), o1, o2)
            /\ UNCHANGED <<chat_history, collected_responses>>
       ELSE LET t == interview_turn(chat_history, collected_responses, user_input, o)
            IN /\ collected_responses' = t.collected_responses
               /\ calls' = Append(calls, t.call)
               /\ chat_history' = t.chat_history
               /\ UNCHANGED <<environ, user_responses>>
               /\ IF ~o.ok
                  THEN CliAbort("oracle")
                  ELSE UNCHANGED <<pc, results, printed, last_error>>

cli_interview_eof ==
    /\ entry = "cli" /\ pc = "interview"
    /\ CliAbort("eof")
    /\ UNCHANGED <<entry, secrets, environ, user_input_lines, typed, chat_history,
                   collected_responses, user_responses, calls, messages,
                   waiting_for_option, widgets>>

(* ---------------------------- chat page ------------------------------- *)
\* variant: the action is offered one message early
button_visible_early(msgs) == Len(msgs) >= 3

button_visible(msgs) == Len(msgs) > 3

\* what a run of main that reaches its end leaves on the page
rendered(msgs) ==
    {"chat_input"} \cup (IF button_visible(msgs) THEN {"button"} ELSE {})

\* variant: the accepted option choice is not collected
option_input_not_collected(st, user_input) ==
    IF user_input \in {"1", "2"}
    THEN [messages |-> st.messages \o
              <<[role |-> "user", content |-> user_input],
                [role |-> "assistant",
                 content |-> IF user_input = "1" THEN "Please enter your meeting notes directly:"
                             ELSE "Let's start with some basic information"]>>,
          waiting_for_option |-> FALSE,
          chat_history |-> st.chat_history,
          collected_responses |-> st.collected_responses]
    ELSE [messages |-> st.messages \o <<[role |-> "user", content |-> user_input],
                                        [role |-> "assistant", content |-> "Please select either 1 or 2:"]>>,
          waiting_for_option |-> st.waiting_for_option,
          chat_history |-> st.chat_history,
          collected_responses |-> st.collected_responses]

\* variant: any input ends the option selection
option_input_any(st, user_input) ==
    [messages |-> st.messages \o <<[role |-> "user", content |-> user_input],
                                   [role |-> "assistant", content |-> "next"]>>,
     waiting_for_option |-> FALSE,
     chat_history |-> st.chat_history,
     collected_responses |-> Append(st.collected_responses, user_input)]

\* the option-selection branch of the chat input handler
option_input(st, user_input) ==
    IF user_input \in {"1", "2"}
    THEN LET next_message == IF user_input = "1" THEN "Please enter your meeting notes directly:"
                             ELSE "Let's start with some basic information"
         IN [messages |-> st.messages \o <<[role |-> "user", content |-> user_input],
                                           [role |-> "assistant", content |-> next_message]>>,
             waiting_for_option |-> FALSE,
             chat_history |-> st.chat_history,
             collected_responses |-> Append(st.collected_responses, user_input)]
    ELSE [messages |-> st.messages \o <<[role |-> "user", content |-> user_input],
                                        [role |-> "assistant", content |-> "Please select either 1 or 2:"]>>,
          waiting_for_option |-> st.waiting_for_option,
          chat_history |-> st.chat_history,
          collected_responses |-> st.collected_responses]

\* the normal chat branch of the chat input handler
chat_flow(st, user_input, o) ==
    [messages |-> IF o.ok
                  THEN st.messages \o <<[role |-> "user", content |-> user_input],
                                        [role |-> "assistant", content |-> o.content]>>
                  ELSE Append(st.messages, [role |-> "user", content |-> user_input]),
     waiting_for_option |-> st.waiting_for_option,
     chat_history |-> IF o.ok
                      THEN st.chat_history \o <<HumanMessage(user_input), AIMessage(o.content)>>
                      ELSE st.chat_history,
     collected_responses |-> Append(st.collected_responses, user_input)]

session_state ==
    [messages |-> messages, waiting_for_option |-> waiting_for_option,
     chat_history |-> chat_history, collected_responses |-> collected_responses]

\* a run of main with no widget event (page load or rerun)
ui_render ==
    /\ entry = "ui"
    /\ LET llm == initialize_llm(secrets, environ)
       IN /\ environ' = llm.environ
          /\ last_error' = IF llm.ok THEN "none" ELSE "config"
          /\ widgets' = IF llm.ok THEN rendered(messages) ELSE {}
    /\ printed' = <<>>
    /\ UNCHANGED <<entry, secrets, pc, user_input_lines, typed, chat_history,
                   collected_responses, user_responses, calls, results, messages,
                   waiting_for_option>>

\* a run of main in which the chat box returns a text
ui_chat_input(user_input, o) ==
    /\ entry = "ui" /\ "chat_input" \in widgets
    /\ Len(typed) < MaxTurns
    /\ UNCHANGED <<entry, secrets, pc, user_input_lines, user_responses, results>>
    /\ printed' = <<>>
    /\ LET llm == initialize_llm(secrets, environ)
       IN /\ environ' = llm.environ
          /\ IF ~llm.ok
             THEN /\ last_error' = "config"
                  /\ widgets' = {}
                  /\ UNCHANGED <<typed, chat_history, collected_responses, calls,
                                 messages, waiting_for_option>>
             ELSE LET st == IF waiting_for_option
                            THEN option_input(session_state, user_input)
                            ELSE chat_flow(session_state, user_input, o)
                      failed == ~waiting_for_option /\ ~o.ok
                  IN /\ typed' = Append(typed, user_input)
                     /\ messages' = st.messages
                     /\ waiting_for_option' = st.waiting_for_option
                     /\ chat_history' = st.chat_history
                     /\ collected_responses' = st.collected_responses
                     /\ calls' = IF waiting_for_option THEN calls
                                 ELSE Append(calls, chat_call(user_input, chat_history, o))
                     /\ last_error' = IF failed THEN "oracle" ELSE "none"
                     /\ widgets' = IF failed THEN rendered(messages)
                                   ELSE rendered(st.messages)

\* a run of main in which "Generate Meeting Minutes" was pressed
ui_generate(o1, o2) ==
    /\ entry = "ui" /\ "button" \in widgets
    /\ Len(user_responses) < MaxGenerate
    /\ UNCHANGED <<entry, secrets, pc, user_input_lines, typed, chat_history,
                   collected_responses, messages, waiting_for_option>>
    /\ LET llm == initialize_llm(secrets, environ)
           all_responses == join("\n", collected_responses)
           r == process_meeting_data(all_responses, secrets, llm.environ, o1, o2)
       IN IF ~llm.ok \/ ~button_visible(messages)
          THEN /\ environ' = llm.environ
               /\ last_error' = IF llm.ok THEN "none" ELSE "config"
               /\ widgets' = IF llm.ok THEN rendered(messages) ELSE {}
               /\ printed' = <<>>
               /\ UNCHANGED <<user_responses, calls, results>>
          ELSE /\ environ' = r.environ
               /\ user_responses' = Append(user_responses, all_responses)
               /\ calls' = calls \o r.calls
               /\ last_error' = r.error
               /\ results' = r.results
               /\ printed' = IF r.raised THEN <<>> ELSE <<r.results[1].meeting_minutes>>
               /\ widgets' = IF r.raised THEN {"button"} ELSE rendered(messages)

Next ==
    \/ \E c \in Choices, o \in Outcomes(ChatReplies) : cli_choice(c, o)
    \/ \E l \in NoteLines : cli_notes_line(l)
    \/ \E o1 \in Outcomes(RawReplies), o2 \in Outcomes(MomReplies) : cli_notes_eof(o1, o2)
    \/ \E u \in CliInputs, o \in Outcomes(ChatReplies),
          o1 \in Outcomes(RawReplies), o2 \in Outcomes(MomReplies) :
            cli_interview_input(u, o, o1, o2)
    \/ cli_interview_eof
    \/ ui_render
    \/ \E u \in UiInputs, o \in Outcomes(ChatReplies) : ui_chat_input(u, o)
    \/ \E o1 \in Outcomes(RawReplies), o2 \in Outcomes(MomReplies) : ui_generate(o1, o2)

Spec == Init /\ [][Next]_vars

(* ======================= properties of the model ====================== *)
Last(s) == s[Len(s)]
Front(s) == SubSeq(s, 1, Len(s) - 1)
IsPrefix(s, t) == Len(s) <= Len(t) /\ SubSeq(t, 1, Len(s)) = s
Contents(s) == [i \in 1..Len(s) |-> s[i].content]
Count(s, Test(_)) == Len(SelectSeq(s, Test))
IsChat(c) == c.chain = "chat"
IsInterview(c) == c.chain = "interview"
IsMom(c) == c.chain = "mom"
IsPipeline(c) == c.chain \in {"interview", "mom"}
PipelineCalls == SelectSeq(calls, IsPipeline)

NoCredential == secrets = None /\ environ = None

\* C1: with no OPENAI_API_KEY in the secret store and none in the
\* environment, initialization fails with the configuration error and no
\* oracle call is ever made: the command-line run never reaches the
\* interview loop or a result, the chat page never renders an input widget.
C1_NoKeyNoOracleCall ==
    NoCredential =>
        /\ calls = <<>>
        /\ results = <<>>
        /\ pc \notin {"interview", "done"}
        /\ widgets = {}
        /\ last_error \in {"none", "config"}
        /\ pc = "error" => last_error = "config" /\ printed = <<ErrorText>>
        /\ user_responses # <<>> => pc = "error"

C1_Witness ==
    /\ NoCredential
    /\ entry = "cli" /\ pc = "error" /\ last_error = "config"
    /\ user_responses # <<>>

C3_FailurePropagated ==
    /\ Count(calls, IsInterview) <= Len(user_responses)
    /\ Count(calls, IsMom) <= Count(calls, IsInterview)
    /\ \A i \in 1..Len(PipelineCalls) :
          LET c == PipelineCalls[i]
          IN ~c.ok =>
               /\ i < Len(PipelineCalls) => IsInterview(PipelineCalls[i + 1])
               /\ i = Len(PipelineCalls) => results = <<>>
               /\ entry = "cli" =>
                     /\ pc = "error" /\ last_error = "oracle"
                     /\ printed = <<ErrorText>>
                     /\ i = Len(PipelineCalls)

C3_Witness ==
    /\ entry = "cli" /\ pc = "error"
    /\ Len(PipelineCalls) = 1 /\ ~PipelineCalls[1].ok

\* C4: the two stages run strictly in sequence: a rendering call is always
\* immediately preceded by the successful extraction call of the same run
\* and receives exactly its reply, a successful extraction call is always
\* followed by the rendering call, a successful run made exactly one call
\* per stage, and the result pairs the two replies.
C4_StagesSequential ==
    /\ \A i \in 1..Len(PipelineCalls) :
          LET c == PipelineCalls[i]
          IN /\ IsMom(c) =>
                  /\ i > 1
                  /\ IsInterview(PipelineCalls[i - 1])
                  /\ PipelineCalls[i - 1].ok
                  /\ c.input = PipelineCalls[i - 1].content
             /\ (IsInterview(c) /\ c.ok) =>
                  /\ i < Len(PipelineCalls)
                  /\ IsMom(PipelineCalls[i + 1])
             /\ IsInterview(c) =>
                  c.input = user_responses[Count(SubSeq(PipelineCalls, 1, i), IsInterview)]
    /\ results # <<>> =>
          /\ Len(PipelineCalls) >= 2
          /\ LET n == Len(PipelineCalls)
             IN /\ IsInterview(PipelineCalls[n - 1]) /\ IsMom(PipelineCalls[n])
                /\ results[1].raw_data = PipelineCalls[n - 1].content
                /\ results[1].meeting_minutes = PipelineCalls[n].content
    /\ pc = "done" =>
          /\ results # <<>>
          /\ Count(calls, IsInterview) = 1 /\ Count(calls, IsMom) = 1

C4_Witness ==
    /\ pc = "done" /\ results # <<>>
    /\ Len(PipelineCalls) = 2

IsHuman(m) == m.role = "human"
IsUser(m) == m.role = "user"
IsStop(t) == lower(t) = "exit"
NotStop(t) == ~IsStop(t)
Failed(c) == ~c.ok
\* the command-line interview has returned its raw text
InterviewReturned == entry = "cli" /\ typed # <<>> /\ user_responses # <<>>

\* C5: the raw text the command-line interview returns is the user turns
\* entered before the stop signal, in order, joined by newlines: it holds
\* no assistant turn, not the stop token and not the opening "Hello".
C5_RawTextIsUserTurns ==
    InterviewReturned =>
        /\ user_responses[1] = join("\n", Front(typed))
        /\ user_responses[1] =
               join("\n", Contents(SelectSeq(SubSeq(chat_history, 3, Len(chat_history)),
                                             IsHuman)))

C5_Witness ==
    /\ InterviewReturned
    /\ Len(typed) = 3
    /\ typed[1] # typed[2]

UserTurns == Contents(SelectSeq(messages, IsUser))

RECURSIVE FromChoice(_)
\* the user turns from the accepted option choice on
FromChoice(turns) ==
    IF turns = <<>> \/ Head(turns) \in {"1", "2"} THEN turns
    ELSE FromChoice(Tail(turns))

GeneratePressed == entry = "ui" /\ user_responses' # user_responses

\* C6 as stated: the raw text handed to process_meeting_data by the chat
\* page is the concatenation of every user turn in messages.
C6_Original ==
    [][GeneratePressed => Last(user_responses') = join("\n", UserTurns)]_vars

\* C6 amended: the raw text handed to process_meeting_data by the chat page
\* is the user turns from the accepted option choice ("1" or "2") on, in
\* order, joined by newlines; the turns rejected during option selection
\* and the assistant turns are not part of it.
C6_RawTextFromChoice ==
    [][GeneratePressed => Last(user_responses') = join("\n", FromChoice(UserTurns))]_vars

C6_Witness ==
    /\ entry = "ui" /\ user_responses # <<>>
    /\ Len(typed) = 3
    /\ typed[1] \notin {"1", "2"}
    /\ user_responses[1] # ""

\* C7: every dialogue oracle call receives the whole transcript so far,
\* a successful call appends the user turn and then the reply, and the
\* transcript only grows at its end and alternates user / assistant.
C7_TranscriptState ==
    /\ \A i \in 1..Len(calls) :
          IsChat(calls[i]) =>
              LET ctx == calls[i].chat_history
                  n == Len(ctx)
              IN /\ IsPrefix(ctx, chat_history)
                 /\ n = 2 * Count(SelectSeq(SubSeq(calls, 1, i - 1), IsChat), LAMBDA c : c.ok)
                 /\ calls[i].ok =>
                       /\ Len(chat_history) >= n + 2
                       /\ chat_history[n + 1] = HumanMessage(calls[i].input)
                       /\ chat_history[n + 2] = AIMessage(calls[i].content)
    /\ Len(chat_history) = 2 * Count(SelectSeq(calls, IsChat), LAMBDA c : c.ok)
    /\ \A j \in 1..Len(chat_history) :
          chat_history[j].role = IF j % 2 = 1 THEN "human" ELSE "ai"

C8_StopSignal ==
    entry = "cli" =>
        /\ pc = "interview" => Count(typed, IsStop) = 0
        /\ InterviewReturned <=> (typed # <<>> /\ IsStop(Last(typed)))
        /\ typed # <<>> => Count(Front(typed), IsStop) = 0
        /\ typed # <<>> => Count(calls, IsChat) = 1 + Count(typed, NotStop)
        /\ (typed # <<>> /\ IsStop(Last(typed))) =>
              /\ collected_responses = Front(typed)
              /\ Contents(SelectSeq(chat_history, IsHuman)) = <<"Hello">> \o Front(typed)
        /\ (pc \in {"done", "error"} /\ typed # <<>> /\ ~IsStop(Last(typed))) =>
              last_error \in {"oracle", "eof"}

C8_Witness ==
    /\ InterviewReturned
    /\ Last(typed) = "EXIT"
    /\ Len(typed) = 3

C9_State ==
    entry = "ui" =>
        /\ Len(messages) = 1 + 2 * Len(typed) - Count(SelectSeq(calls, IsChat), Failed)
        /\ Count(SelectSeq(calls, IsChat), Failed) = 0 => Len(messages) % 2 = 1
        /\ "button" \in widgets => Len(messages) > 3
        /\ (last_error = "none" /\ widgets # {}) =>
               ("button" \in widgets <=> Len(messages) > 3)
        /\ Len(messages) > 3 <=> Len(typed) >= 2

C10_State ==
    (entry = "ui" /\ waiting_for_option) =>
        /\ chat_history = <<>>
        /\ Count(calls, IsChat) = 0
        /\ collected_responses = <<>>

C10_Step ==
    entry = "ui" =>
        /\ waiting_for_option' # waiting_for_option =>
              /\ waiting_for_option /\ ~waiting_for_option'
              /\ typed' # typed /\ Last(typed') \in {"1", "2"}
        /\ (waiting_for_option /\ typed' # typed /\ Last(typed') \notin {"1", "2"}) =>
              /\ waiting_for_option'
              /\ collected_responses' = collected_responses
              /\ chat_history' = chat_history
              /\ calls' = calls
              /\ messages' = messages \o
                    <<[role |-> "user", content |-> Last(typed')],
                      [role |-> "assistant", content |-> "Please select either 1 or 2:"]>>

C10_OptionGate == []C10_State /\ [][C10_Step]_vars

C10_Witness ==
    /\ entry = "ui" /\ ~waiting_for_option
    /\ Len(typed) = 3
    /\ typed[1] \notin {"1", "2"}
    /\ Count(calls, IsChat) = 1
====
